---- MODULE Spec2Model ----
(***************************************************************************)
(* A model of OpBoxSerialLibrary.h: the handshake, the packet encoders and *)
(* the blocking packet decoder SerialReceiveAndParsePacket, run against a  *)
(* byte channel (the Arduino Serial object).                               *)
(*                                                                         *)
(* Bytes on the channel are the integers 0..255.  A C `char` of the AVR    *)
(* build is signed 8 bit, so the decoder's buffers hold -128..127.         *)
(***************************************************************************)
EXTENDS Integers, Sequences, FiniteSets, TLC

\* ------------------------------------------------------------------ bounds

\* longest label the encoders are called with
MaxLabel == 2
\* most noise bytes in front of a packet
MaxNoise == 2
\* longest stream of arbitrary bytes
MaxStream == 4
\* longest payload of a hand-built packet
MaxData == 2
\* most items (packets, noise bytes) of a two-run stream
MaxItems == 2
\* most bytes of filler in a long label or payload
MaxFill == 101
\* most 'A' probes the handshake writes while the host stays silent
MaxProbes == 2

\* ------------------------------------------------- constants of the source

PACKET_START == 60
PACKET_INT == 124
PACKET_INT2 == 126
PACKET_CHAR == 64
PACKET_END == 62
MAX_BUFFER == 100

\* Serial.write('A') and Serial.read() == 'P' of SerialHandshake
HANDSHAKE_PROBE == 65
HANDSHAKE_REPLY == 80

\* the string literals "Err" and "SerInputErr"
ErrLabel == <<69, 114, 114>>
SerInputErr == <<83, 101, 114, 73, 110, 112, 117, 116, 69, 114, 114>>

\* `char data_type;` holds no value until the label's marker is seen
Uninit == 999

\* ------------------------------------------------------------- conversions

\* char(inByte): an int 0..255 stored in a signed 8-bit char
ToChar(b) == IF b % 256 > 127 THEN (b % 256) - 256 ELSE b % 256

\* Serial.write(c) of a char, and the byte a buffer cell stands for
ToByte(c) == c % 256

\* An unsigned long of the AVR build is 32 bits wide.  TLC's integers stop
\* at 2^31 - 1, so the value hi * 2^16 + lo is kept as its two 16-bit halves.
UL(hi, lo) == [hi |-> hi, lo |-> lo]

RECURSIVE Pow2(_)
Pow2(n) == IF n = 0 THEN 1 ELSE 2 * Pow2(n - 1)

\* (val >> n) & 0xff for n < 32: the low eight bits of the shifted value
ShiftRightAndFF(val, n) ==
  IF n >= 16 THEN (val.hi \div Pow2(n - 16)) % 256
  ELSE ((val.lo \div Pow2(n)) + (val.hi % Pow2(n)) * Pow2(16 - n)) % 256

Bytes(chars) == [i \in 1..Len(chars) |-> ToByte(chars[i])]

\* a store to cell i (0-based) of a char array of which the first Len(buf)
\* cells have been written so far; the decoder only ever stores at i <= Len(buf)
Store(buf, i, c) ==
  IF i < Len(buf) THEN [buf EXCEPT ![i + 1] = c] ELSE Append(buf, c)

Prefix(s, n) == SubSeq(s, 1, n)

\* all sequences over S of length at most n
RECURSIVE SeqsUpTo(_, _)
SeqsUpTo(S, n) ==
  IF n = 0 THEN {<<>>}
  ELSE LET shorter == SeqsUpTo(S, n - 1)
       IN shorter \cup {Append(s, x) : s \in {t \in shorter : Len(t) = n - 1}, x \in S}

Fill(b, n) == [i \in 1..n |-> b]

\* ------------------------------------------------------------------ inputs

\* label characters 'T' and 's'
LabelChars == {84, 115}
Labels == SeqsUpTo(LabelChars, MaxLabel)

\* 32-bit values: small ones, the spec's examples, and ones with a byte that
\* equals a marker ('>' = 0x3E, '|' = 0x7C)
\* 0, 1, 5, 0x3E, 0x7C, 0x12345678, 0x3E000000, 0xFFFFFFFF
IntSamples ==
  { UL(0, 0), UL(0, 1), UL(0, 5), UL(0, 62), UL(0, 124), UL(4660, 22136),
    UL(15872, 0), UL(65535, 65535) }

\* every 32-bit value whose four bytes are among 0x00, 0x01, 0x3E, 0x80, 0xFF
ByteSamples == {0, 1, 62, 128, 255}
LongSamples ==
  { UL(b0 * 256 + b1, b2 * 256 + b3) :
      b0 \in ByteSamples, b1 \in ByteSamples, b2 \in ByteSamples, b3 \in ByteSamples }

\* the bytes of arbitrary streams: the five markers and 'a'
Alphabet == {60, 124, 126, 64, 62, 97}

\* noise in front of a packet: 'X' and a stray '>'
NoiseBytes == {88, 62}

\* payload bytes of hand-built packets
DataBytes == {0, 5}

\* "XY<Ts|" 0 0 0 5 ">" and "<@a>"; "<@" 0xFF ">"; two packets "<|><@a>";
\* what SerialSendInt("T", 0x3E) writes, "<T|" 0 0 0 '>' ">"
Examples ==
  { <<88, 89, 60, 84, 115, 124, 0, 0, 0, 5, 62>>, <<60, 64, 97, 62>>,
    <<60, 64, 255, 62>>, <<60, 124, 62, 60, 64, 97, 62>>,
    <<60, 84, 124, 0, 0, 0, 62, 62>> }

\* what the two-run streams are made of: a noise byte, "<T|" 5 ">", "<@>",
\* "<s@a>"
Items == { <<88>>, <<60, 84, 124, 5, 62>>, <<60, 64, 62>>, <<60, 115, 64, 97, 62>> }

\* the chars SerialSendCharPair is called with: 'a', 'b', '>', 0 and 0xFF
DataChars == {97, 98, 62, 0, -1}

\* the bytes a host may send during the handshake: 'P', 'A', '<'
HelloBytes == {80, 65, 60}

\* every concatenation of at most n members of S
RECURSIVE Concats(_, _)
Concats(S, n) ==
  IF n = 0 THEN {<<>>}
  ELSE LET shorter == Concats(S, n - 1)
       IN shorter \cup {s \o x : s \in shorter, x \in S}

\* ---------------------------------------------------------------- encoders

\* a slip: the four bytes least significant first
SerialWriteLongIntLE(val) ==
  << ShiftRightAndFF(val, 0),
     ShiftRightAndFF(val, 8),
     ShiftRightAndFF(val, 16),
     ShiftRightAndFF(val, 24) >>

\* SerialWriteLongInt: four Serial.write calls, most significant byte first
SerialWriteLongInt(val) ==
  << ShiftRightAndFF(val, 24),
     ShiftRightAndFF(val, 16),
     ShiftRightAndFF(val, 8),
     ShiftRightAndFF(val, 0) >>

\* Serial.write(text) of a C string writes its bytes up to the terminator
WriteText(text) == Bytes(text)

\* a slip: the fixed-width packet left without its END
SerialSendIntNoEnd(text, ts) ==
  <<PACKET_START>> \o Bytes(text) \o <<PACKET_INT>> \o SerialWriteLongInt(ts)

SerialSendInt(text, ts) ==
  <<PACKET_START>> \o WriteText(text) \o <<PACKET_INT>>
    \o SerialWriteLongInt(ts) \o <<PACKET_END>>

SerialSendIntPair(text, int1, int2) ==
  <<PACKET_START>> \o WriteText(text) \o <<PACKET_INT2>>
    \o SerialWriteLongInt(int1) \o SerialWriteLongInt(int2) \o <<PACKET_END>>

SerialSendChar(text, data) ==
  <<PACKET_START>> \o WriteText(text) \o <<PACKET_CHAR>>
    \o <<ToByte(data)>> \o <<PACKET_END>>

\* a slip: the two chars written in the wrong order
SerialSendCharPairSwapped(text, char1, char2) ==
  <<PACKET_START>> \o Bytes(text) \o <<PACKET_CHAR>>
    \o <<ToByte(char2), ToByte(char1)>> \o <<PACKET_END>>

SerialSendCharPair(text, char1, char2) ==
  <<PACKET_START>> \o WriteText(text) \o <<PACKET_CHAR>>
    \o <<ToByte(char1), ToByte(char2)>> \o <<PACKET_END>>

SerialSendErrorText(text) ==
  <<PACKET_START>> \o WriteText(ErrLabel) \o <<PACKET_CHAR>>
    \o WriteText(text) \o <<PACKET_END>>

\* ----------------------------------------------------------------- decoder

\* the locals of SerialReceiveAndParsePacket as the call begins
\* a slip: the flags and lengths declared static, kept from call to call
FreshLocalsKeep(s) == s

FreshLocals(s) ==
  [s EXCEPT !.flag_ser_label = FALSE,
            !.flag_ser_data = FALSE,
            !.flag_ser_end = FALSE,
            !.data_type = Uninit,
            !.length_label = 0,
            !.length_data = 0]

\* a slip: the marker ends the label and data_type is left unassigned
ParseLabelNoType(s, inByte) ==
  IF inByte = PACKET_INT \/ inByte = PACKET_CHAR
  THEN [s EXCEPT !.flag_ser_label = FALSE,
                 !.flag_ser_data = TRUE,
                 !.buffer_label = Store(s.buffer_label, s.length_label, 0),
                 !.length_data = 0]
  ELSE [s EXCEPT !.buffer_label = Store(s.buffer_label, s.length_label, ToChar(inByte)),
                 !.length_label = s.length_label + 1]

\* a change: a START inside the label starts the label over
ParseLabelRestart(s, inByte) ==
  IF inByte = PACKET_INT \/ inByte = PACKET_CHAR
  THEN [s EXCEPT !.flag_ser_label = FALSE,
                 !.flag_ser_data = TRUE,
                 !.buffer_label = Store(s.buffer_label, s.length_label, 0),
                 !.length_data = 0,
                 !.data_type = ToChar(inByte)]
  ELSE IF inByte = PACKET_START THEN [s EXCEPT !.length_label = 0]
  ELSE [s EXCEPT !.buffer_label = Store(s.buffer_label, s.length_label, ToChar(inByte)),
                 !.length_label = s.length_label + 1]

\* a slip: a marker right after START taken as the first label byte
ParseLabelNonEmpty(s, inByte) ==
  IF (inByte = PACKET_INT \/ inByte = PACKET_CHAR) /\ s.length_label > 0
  THEN [s EXCEPT !.flag_ser_label = FALSE,
                 !.flag_ser_data = TRUE,
                 !.buffer_label = Store(s.buffer_label, s.length_label, 0),
                 !.length_data = 0,
                 !.data_type = ToChar(inByte)]
  ELSE [s EXCEPT !.buffer_label = Store(s.buffer_label, s.length_label, ToChar(inByte)),
                 !.length_label = s.length_label + 1]

\* the body of `if (flag_ser_label)`
ParseLabel(s, inByte) ==
  IF inByte = PACKET_INT \/ inByte = PACKET_CHAR
  THEN [s EXCEPT !.flag_ser_label = FALSE,
                 !.flag_ser_data = TRUE,
                 !.buffer_label = Store(s.buffer_label, s.length_label, 0),
                 !.length_data = 0,
                 !.data_type = ToChar(inByte)]
  ELSE [s EXCEPT !.buffer_label = Store(s.buffer_label, s.length_label, ToChar(inByte)),
                 !.length_label = s.length_label + 1]

\* the value `return data_type;` hands back: an indeterminate one if
\* data_type was never assigned
ReturnValues(s) ==
  IF s.data_type = Uninit THEN {ToChar(PACKET_INT), ToChar(PACKET_CHAR), 0}
  ELSE {s.data_type}

\* what the caller holds after a return: the label and payload cells stored
\* before each terminator, and the returned type tag
Packet(s, type) ==
  [label |-> Bytes(Prefix(s.buffer_label, s.length_label)),
   type |-> type,
   data |-> Bytes(Prefix(s.buffer_data, s.length_data))]

\* a change: a START inside the payload gives the packet up and starts a label
ParseDataStartAborts(s, inByte, type) ==
  IF inByte = PACKET_END
  THEN [s EXCEPT !.flag_ser_data = FALSE,
                 !.flag_ser_end = TRUE,
                 !.buffer_data = Store(s.buffer_data, s.length_data, 0),
                 !.ret = type,
                 !.packets = Append(s.packets, Packet(s, type)),
                 !.pc = "returned"]
  ELSE IF inByte = PACKET_START
  THEN [s EXCEPT !.flag_ser_data = FALSE,
                 !.flag_ser_label = TRUE,
                 !.length_label = 0]
  ELSE [s EXCEPT !.buffer_data = Store(s.buffer_data, s.length_data, ToChar(inByte)),
                 !.length_data = s.length_data + 1]

\* a change: the payload of an INT packet is four bytes whatever they are
ParseDataFixedInt(s, inByte, type) ==
  IF inByte = PACKET_END /\ ~(type = PACKET_INT /\ s.length_data < 4)
  THEN [s EXCEPT !.flag_ser_data = FALSE,
                 !.flag_ser_end = TRUE,
                 !.buffer_data = Store(s.buffer_data, s.length_data, 0),
                 !.ret = type,
                 !.packets = Append(s.packets, Packet(s, type)),
                 !.pc = "returned"]
  ELSE [s EXCEPT !.buffer_data = Store(s.buffer_data, s.length_data, ToChar(inByte)),
                 !.length_data = s.length_data + 1]

\* a slip: END sets flag_ser_end and the return statement is missing
ParseDataNoReturn(s, inByte, type) ==
  IF inByte = PACKET_END
  THEN [s EXCEPT !.flag_ser_data = FALSE,
                 !.flag_ser_end = TRUE,
                 !.buffer_data = Store(s.buffer_data, s.length_data, 0)]
  ELSE [s EXCEPT !.buffer_data = Store(s.buffer_data, s.length_data, ToChar(inByte)),
                 !.length_data = s.length_data + 1]

\* the body of `else if (flag_ser_data)`
ParseData(s, inByte, type) ==
  IF inByte = PACKET_END
  THEN [s EXCEPT !.flag_ser_data = FALSE,
                 !.flag_ser_end = TRUE,
                 !.buffer_data = Store(s.buffer_data, s.length_data, 0),
                 !.ret = type,
                 !.packets = Append(s.packets, Packet(s, type)),
                 !.pc = "returned"]
  ELSE [s EXCEPT !.buffer_data = Store(s.buffer_data, s.length_data, ToChar(inByte)),
                 !.length_data = s.length_data + 1]

\* the body of `else if (inByte == PACKET_START)`
ParseStart(s) ==
  [s EXCEPT !.flag_ser_label = TRUE, !.length_label = 0]

\* Serial.write of some bytes
Write(s, bytes) == [s EXCEPT !.tx = s.tx \o bytes]

\* Serial.flush(): returns once every byte written so far has left
Flush(s) == [s EXCEPT !.flushed = Len(s.tx)]

\* a slip: the byte dropped without a word
ParseNoiseSilent(s, inByte) == s

\* a change: the byte sent as the text of the error frame
ParseNoiseInFrame(s, inByte) ==
  Flush(Write(s, <<PACKET_START>> \o Bytes(ErrLabel) \o <<PACKET_CHAR>>
                   \o <<ToByte(ToChar(inByte))>> \o <<PACKET_END>>))

\* the final else: SerialSendErrorText("SerInputErr"), flushed, and then
\* Serial.write(char(inByte))
ParseNoise(s, inByte) ==
  Write(Flush(Write(s, SerialSendErrorText(SerInputErr))), <<ToByte(ToChar(inByte))>>)

\* one pass of the while loop that finds a byte: every state it can leave
ParseByte(s, inByte) ==
  IF s.flag_ser_label THEN {ParseLabel(s, inByte)}
  ELSE IF s.flag_ser_data THEN {ParseData(s, inByte, t) : t \in ReturnValues(s)}
  ELSE IF inByte = PACKET_START THEN {ParseStart(s)}
  ELSE {ParseNoise(s, inByte)}

\* the cell of a caller's array the pass stores to, -1 if it stores to none
StoreIndex(s) ==
  IF s.flag_ser_label THEN s.length_label
  ELSE IF s.flag_ser_data THEN s.length_data
  ELSE -1

\* a slip: the locals set up inside the loop, so an empty poll forgets them
PollEmptyRestarts(s) ==
  [s EXCEPT !.flag_ser_label = FALSE, !.flag_ser_data = FALSE,
            !.length_label = 0, !.length_data = 0]

\* while (!flag_ser_end)
LoopCondition(s) == ~s.flag_ser_end

\* a pass of the while loop that finds Serial.available() == 0
PollEmpty(s) == s

\* a slip: the byte looked at and left in the receive buffer
SerialReadPeek(s) == [s EXCEPT !.nread = s.nread + 1]

\* inByte = Serial.read()
SerialRead(s) == [s EXCEPT !.rx = Tail(s.rx), !.nread = s.nread + 1]

\* A store to cell MAX_BUFFER or beyond of a caller's array is outside the
\* array.  What the build makes of it is not fixed by the source:
\*   "beyond"  the cell is memory nothing else uses, the decoder goes on;
\*   "other"   the two arrays are adjacent and the cell is cell 0 of the other;
\*   "crash"   the cell is something the sketch needs, and the sketch stops.
StoreOutside(s, inByte, outcome) ==
  LET t == CHOOSE x \in ParseByte(s, inByte) : TRUE
  IN CASE outcome = "beyond" -> t
       [] outcome = "other" ->
            IF s.flag_ser_label
            THEN [t EXCEPT !.buffer_data =
                    Store(t.buffer_data, 0, t.buffer_label[Len(t.buffer_label)])]
            ELSE [t EXCEPT !.buffer_label =
                    Store(t.buffer_label, 0, t.buffer_data[Len(t.buffer_data)])]
       [] outcome = "crash" -> [t EXCEPT !.pc = "crashed"]

\* SerialHandshake, one pass of the inner loop: nothing to read, so probe
HandshakeProbe(s) == Write(s, <<HANDSHAKE_PROBE>>)

\* a slip: any byte read ends the handshake
HandshakeByteAny(s, inByte) == [s EXCEPT !.pc = "shaken"]

\* a change: a byte other than the reply is written back
HandshakeByteEcho(s, inByte) ==
  IF inByte = HANDSHAKE_REPLY THEN [s EXCEPT !.pc = "shaken"]
  ELSE Write(s, <<inByte>>)

\* SerialHandshake, the if: a byte is there, it is read and compared
HandshakeByte(s, inByte) ==
  IF inByte = HANDSHAKE_REPLY THEN [s EXCEPT !.pc = "shaken"] ELSE s

\* ------------------------------------------------------------------- state

Runs == {1, 2}

\* run[r] is one run of the sketch on its own channel:
\*   input   every byte the host has sent so far
\*   wire    the bytes sent and not yet arrived
\*   rx      the bytes arrived and not yet read (Serial.available() = Len(rx))
\*   tx      every byte the sketch has written (Serial.write)
\*   flushed how many bytes of tx had been written at the last Serial.flush()
\*   nread   how many bytes the sketch has read (Serial.read)
\*   pc      where the sketch is
\*   sent    the encoder call the sketch made, if any
\*   the locals and the two caller arrays of SerialReceiveAndParsePacket,
\*   ret its return value, packets what the caller got from each return
VARIABLES run
vars == <<run>>

NoCall == [op |-> "none", text |-> <<>>, args |-> <<>>]

Boot(stream, pc) ==
  [input |-> stream, wire |-> stream, rx |-> <<>>, tx |-> <<>>, flushed |-> 0,
   nread |-> 0, pc |-> pc, sent |-> NoCall,
   flag_ser_label |-> FALSE, flag_ser_data |-> FALSE, flag_ser_end |-> FALSE,
   data_type |-> Uninit, length_label |-> 0, length_data |-> 0,
   buffer_label |-> <<>>, buffer_data |-> <<>>,
   ret |-> Uninit, packets |-> <<>>]

\* ----------------------------------------------------------------- actions

\* the next byte in flight reaches the receive buffer
Arrive(r) ==
  /\ run[r].wire # <<>>
  /\ run' = [run EXCEPT ![r].rx = Append(@, Head(run[r].wire)),
                        ![r].wire = Tail(@)]

\* the decoder polls and no byte is there
Poll(r) ==
  /\ run[r].pc = "parse"
  /\ LoopCondition(run[r])
  /\ run[r].rx = <<>>
  /\ run' = [run EXCEPT ![r] = PollEmpty(@)]

\* the decoder reads one byte and acts on it
Read(r) ==
  /\ run[r].pc = "parse"
  /\ LoopCondition(run[r])
  /\ run[r].rx # <<>>
  /\ StoreIndex(run[r]) < MAX_BUFFER
  /\ \E s \in ParseByte(SerialRead(run[r]), Head(run[r].rx)) :
       run' = [run EXCEPT ![r] = s]

\* the decoder reads one byte and stores outside a caller's array
ReadOverflow(r) ==
  /\ run[r].pc = "parse"
  /\ LoopCondition(run[r])
  /\ run[r].rx # <<>>
  /\ StoreIndex(run[r]) >= MAX_BUFFER
  /\ \E outcome \in {"beyond", "other", "crash"} :
       run' = [run EXCEPT ![r] =
                 StoreOutside(SerialRead(run[r]), Head(run[r].rx), outcome)]

\* the caller calls SerialReceiveAndParsePacket again with the same arrays
Call(r) ==
  /\ run[r].pc = "returned"
  /\ run' = [run EXCEPT ![r] = [FreshLocals(@) EXCEPT !.pc = "parse"]]

Decode(r) == Arrive(r) \/ Poll(r) \/ Read(r) \/ Call(r)

\* the sketch calls SerialSendInt(text, ts)
SendInt(r) ==
  /\ run[r].pc = "send"
  /\ \E text \in Labels, ts \in IntSamples :
       run' = [run EXCEPT ![r] =
                 [Flush(Write(@, SerialSendInt(text, ts))) EXCEPT
                    !.pc = "sent",
                    !.sent = [op |-> "Int", text |-> text, args |-> <<ts>>]]]

\* the sketch calls SerialSendIntPair(text, int1, int2)
SendIntPair(r) ==
  /\ run[r].pc = "send"
  /\ \E text \in Labels, int1 \in IntSamples, int2 \in IntSamples :
       run' = [run EXCEPT ![r] =
                 [Flush(Write(@, SerialSendIntPair(text, int1, int2))) EXCEPT
                    !.pc = "sent",
                    !.sent = [op |-> "IntPair", text |-> text, args |-> <<int1, int2>>]]]

\* the sketch calls SerialSendCharPair(text, char1, char2)
SendCharPair(r) ==
  /\ run[r].pc = "send"
  /\ \E text \in Labels, char1 \in DataChars, char2 \in DataChars :
       run' = [run EXCEPT ![r] =
                 [Flush(Write(@, SerialSendCharPair(text, char1, char2))) EXCEPT
                    !.pc = "sent",
                    !.sent = [op |-> "CharPair", text |-> text,
                              args |-> <<char1, char2>>]]]

\* the sketch calls SerialWriteLongInt(val) on its own
WriteLongInt(r) ==
  /\ run[r].pc = "send"
  /\ \E val \in LongSamples :
       run' = [run EXCEPT ![r] =
                 [Write(@, SerialWriteLongInt(val)) EXCEPT
                    !.pc = "wrote",
                    !.sent = [op |-> "Long", text |-> <<>>, args |-> <<val>>]]]

\* the host sends back what the sketch wrote, to a fresh call of the decoder
LoopBack(r) ==
  /\ run[r].pc = "sent"
  /\ run' = [run EXCEPT ![r] =
               [FreshLocals(@) EXCEPT !.input = run[r].tx,
                                      !.wire = run[r].tx,
                                      !.pc = "parse"]]

\* SerialHandshake finds nothing to read and writes 'A'
Probe(r) ==
  /\ run[r].pc = "handshake"
  /\ run[r].rx = <<>>
  /\ Len(run[r].tx) < MaxProbes
  /\ run' = [run EXCEPT ![r] = HandshakeProbe(@)]

\* SerialHandshake finds a byte and reads it
Shake(r) ==
  /\ run[r].pc = "handshake"
  /\ run[r].rx # <<>>
  /\ run' = [run EXCEPT ![r] = HandshakeByte(SerialRead(@), Head(run[r].rx))]

\* ---------------------------------------------------------- specifications

\* The decoder on one channel: arbitrary short streams, and packets behind noise.
Streams == SeqsUpTo(Alphabet, MaxStream)

NoisyPackets ==
  { noise \o <<PACKET_START>> \o Bytes(text) \o <<marker>> \o data \o <<PACKET_END>> :
      noise \in SeqsUpTo(NoiseBytes, MaxNoise), text \in Labels,
      marker \in {PACKET_INT, PACKET_CHAR}, data \in SeqsUpTo(DataBytes, MaxData) }

Init ==
  \E stream \in Streams \cup NoisyPackets \cup Examples :
    run = [r \in Runs |-> Boot(stream, "parse")]

Next == Decode(1)

Spec == Init /\ [][Next]_vars

\* Two runs of the decoder on two channels that carry the same stream.
TwoStreams == Concats(Items, MaxItems)

InitTwo ==
  \E stream \in TwoStreams :
    run = [r \in Runs |-> Boot(stream, "parse")]

NextTwo == \E r \in Runs : Decode(r)

SpecTwo == InitTwo /\ [][NextTwo]_vars

\* The encoders, and the decoder fed what an encoder wrote.
InitCodec == run = [r \in Runs |-> Boot(<<>>, "send")]

NextCodec ==
  \/ SendInt(1)
  \/ SendIntPair(1)
  \/ SendCharPair(1)
  \/ WriteLongInt(1)
  \/ LoopBack(1)
  \/ Decode(1)

SpecCodec == InitCodec /\ [][NextCodec]_vars

\* The decoder on labels and payloads as long as the caller's arrays.
LongStreams ==
  { <<PACKET_START>> \o Fill(97, n) \o <<PACKET_CHAR, 97, PACKET_END>> :
      n \in (MAX_BUFFER - 1)..MaxFill }
  \cup
  { <<PACKET_START, 84, PACKET_CHAR>> \o Fill(97, n) \o <<PACKET_END>> :
      n \in (MAX_BUFFER - 1)..MaxFill }

InitLong ==
  \E stream \in LongStreams :
    run = [r \in Runs |-> Boot(stream, "parse")]

NextLong == Decode(1) \/ ReadOverflow(1)

SpecLong == InitLong /\ [][NextLong]_vars

\* The handshake.  The loop of SerialHandshake runs without pause, so a byte
\* that has arrived is read; the host's bytes in flight do arrive.
HelloStreams == SeqsUpTo(HelloBytes, MaxStream)

InitHandshake ==
  \E stream \in HelloStreams :
    run = [r \in Runs |-> Boot(stream, "handshake")]

NextHandshake == Arrive(1) \/ Probe(1) \/ Shake(1)

SpecHandshake ==
  InitHandshake /\ [][NextHandshake]_vars /\ WF_vars(Arrive(1)) /\ WF_vars(Shake(1))

\* The decoder under fair delivery.  The while loop of line 130 runs without
\* pause, so a byte that has arrived is read; the bytes in flight do arrive.
LiveBytes == {PACKET_START, PACKET_INT, PACKET_CHAR, PACKET_END, 97}

LiveStreams == SeqsUpTo(LiveBytes, MaxStream)

InitLive ==
  \E stream \in LiveStreams :
    run = [r \in Runs |-> Boot(stream, "parse")]

SpecLive == InitLive /\ [][Next]_vars /\ WF_vars(Arrive(1)) /\ WF_vars(Read(1))

\* ================================================================== claims

IsPrefix(a, b) == Len(a) <= Len(b) /\ Prefix(b, Len(a)) = a

\* the four bytes of a 32-bit value, most significant first
BE4(v) == <<v.hi \div 256, v.hi % 256, v.lo \div 256, v.lo % 256>>

Markers == {PACKET_START, PACKET_INT, PACKET_INT2, PACKET_CHAR, PACKET_END}

\* C1: the bytes SerialSendInt(label, v) writes, fed to a fresh decoder, come
\* back as one packet with the same label, the INT tag and the four
\* big-endian bytes of v, for every v, also one with a byte equal to '>'.
IntRoundTrip ==
  LET s == run[1]
  IN s.sent.op = "Int" /\ s.pc # "sent" =>
       /\ Len(s.packets) >= 1 =>
            s.packets[1] = [label |-> Bytes(s.sent.text), type |-> PACKET_INT,
                            data |-> BE4(s.sent.args[1])]
       /\ s.nread = Len(s.input) => Len(s.packets) >= 1

\* C2: the bytes SerialSendIntPair(label, v1, v2) writes, fed to a fresh
\* decoder, come back as one packet with the same label, the INT2 tag and the
\* eight bytes BE4(v1) BE4(v2).
IntPairRoundTrip ==
  LET s == run[1]
  IN s.sent.op = "IntPair" /\ s.pc # "sent" =>
       /\ Len(s.packets) >= 1 =>
            s.packets[1] = [label |-> Bytes(s.sent.text), type |-> PACKET_INT2,
                            data |-> BE4(s.sent.args[1]) \o BE4(s.sent.args[2])]
       /\ s.nread = Len(s.input) => Len(s.packets) >= 1

\* what a run has produced and holds, whatever call it is in
Produced(s) == <<s.packets, s.tx, s.flushed, s.ret, s.buffer_label, s.buffer_data>>

\* the locals of the call in progress
Locals(s) ==
  <<s.flag_ser_label, s.flag_ser_data, s.flag_ser_end, s.data_type,
    s.length_label, s.length_data>>

\* C3: two runs on the same stream whose bytes arrive at different moments,
\* and which poll an empty channel at different moments, have decoded the same
\* label, type, payload and written the same error notices whenever they have
\* read the same number of bytes.
ChunkingIndependent ==
  run[1].nread = run[2].nread =>
    /\ Produced(run[1]) = Produced(run[2])
    /\ run[1].pc = run[2].pc => Locals(run[1]) = Locals(run[2])

ChunkingWitness ==
  /\ run[1].nread = run[2].nread
  /\ Len(run[1].rx) > Len(run[2].rx)
  /\ run[1].tx # <<>>
  /\ run[1].flag_ser_data /\ run[2].flag_ser_data
  /\ run[1].length_data > 0

\* the number of bytes in front of the first START
RECURSIVE LeadingNoise(_)
LeadingNoise(inp) ==
  IF inp = <<>> \/ Head(inp) = PACKET_START THEN 0 ELSE 1 + LeadingNoise(Tail(inp))

\* where the label of the packet behind k bytes of noise ends: the first INT
\* or CHAR marker after its START, 0 if there is none
LabelEnd(inp, k) ==
  LET ends == {m \in (k + 2)..Len(inp) : inp[m] \in {PACKET_INT, PACKET_CHAR}}
  IN IF ends = {} THEN 0 ELSE CHOOSE m \in ends : \A n \in ends : m <= n

\* inp is noise without a START, then START, a label without marker bytes, an
\* INT or CHAR marker, a payload without END, END
NoiseThenPacket(inp) ==
  LET k == LeadingNoise(inp)
      m == LabelEnd(inp, k)
  IN /\ k < Len(inp)
     /\ m # 0 /\ m < Len(inp)
     /\ \A i \in (k + 2)..(m - 1) : inp[i] \notin Markers
     /\ \A i \in (m + 1)..(Len(inp) - 1) : inp[i] # PACKET_END
     /\ inp[Len(inp)] = PACKET_END

\* "<Err@SerInputErr>"
ErrNoticeBytes ==
  <<60, 69, 114, 114, 64, 83, 101, 114, 73, 110, 112, 117, 116, 69, 114, 114, 62>>

RECURSIVE Notices(_)
Notices(noise) ==
  IF noise = <<>> THEN <<>>
  ELSE ErrNoticeBytes \o <<Head(noise)>> \o Notices(Tail(noise))

\* C4: on k bytes of noise followed by a well-formed packet the decoder has
\* written one notice per noise byte read, in order, returns nothing before
\* the packet's END, and then returns exactly that packet: no noise byte is in
\* its label or payload, and all k notices are written by then.
NoiseSkipped ==
  LET s == run[1]
      inp == s.input
      k == LeadingNoise(inp)
      m == LabelEnd(inp, k)
  IN NoiseThenPacket(inp) =>
       /\ s.tx = Notices(Prefix(inp, IF s.nread < k THEN s.nread ELSE k))
       /\ s.nread < Len(inp) => s.packets = <<>> /\ s.pc = "parse"
       /\ s.nread = Len(inp) =>
            s.packets = << [label |-> SubSeq(inp, k + 2, m - 1),
                            type |-> inp[m],
                            data |-> SubSeq(inp, m + 1, Len(inp) - 1)] >>

NoiseSkippedWitness ==
  /\ NoiseThenPacket(run[1].input)
  /\ LeadingNoise(run[1].input) = 2
  /\ Len(run[1].packets) = 1
  /\ Len(run[1].packets[1].data) = 4
  /\ Len(run[1].tx) = 36

\* a pass of the decoder that reads a byte other than START while it is
\* collecting neither a label nor a payload
IdleNoiseStep ==
  /\ run[1].pc = "parse"
  /\ ~run[1].flag_ser_label /\ ~run[1].flag_ser_data
  /\ run[1].rx # <<>>
  /\ Head(run[1].rx) # PACKET_START
  /\ run'[1].nread = run[1].nread + 1

\* the bytes a step has written
Written == SubSeq(run'[1].tx, Len(run[1].tx) + 1, Len(run'[1].tx))

\* the first END at or after position i of w, 0 if there is none
FirstEnd(w, i) ==
  LET ends == {e \in i..Len(w) : w[e] = PACKET_END}
  IN IF ends = {} THEN 0 ELSE CHOOSE e \in ends : \A f \in ends : e <= f

BoundedBuffers ==
  /\ Len(run[1].buffer_label) <= MAX_BUFFER
  /\ Len(run[1].buffer_data) <= MAX_BUFFER
  /\ run[1].pc # "crashed"

\* C7: two fresh runs fed the same stream return the same packets, call after
\* call, and write the same bytes: what the run that has read less has
\* returned and written is the beginning of what the other has.
Deterministic ==
  \A a \in Runs, b \in Runs :
    run[a].nread <= run[b].nread =>
      /\ IsPrefix(run[a].packets, run[b].packets)
      /\ IsPrefix(run[a].tx, run[b].tx)

DeterministicWitness ==
  /\ Len(run[1].packets) = 2 /\ run[1].packets[1] # run[1].packets[2]
  /\ run[2].packets = run[1].packets
  /\ run[1].wire = <<>> /\ run[1].rx = <<>>
  /\ run[2].wire = <<>> /\ run[2].rx = <<>>
  /\ run[1].pc = "parse" /\ run[2].pc = "returned"

\* C8: SerialSendInt writes START, the label, INT, the four bytes of the
\* value, END and nothing else, SerialSendIntPair START, the label, INT2, the
\* four bytes of each value, END and nothing else; END is the last byte
\* written before the flush.
WireFormat ==
  LET s == run[1]
      w == s.tx
      n == Len(s.sent.text)
  IN /\ s.pc = "sent" /\ s.sent.op = "Int" =>
          /\ Len(w) = n + 7
          /\ w[1] = PACKET_START
          /\ SubSeq(w, 2, n + 1) = Bytes(s.sent.text)
          /\ w[n + 2] = PACKET_INT
          /\ SubSeq(w, n + 3, n + 6) = BE4(s.sent.args[1])
          /\ w[n + 7] = PACKET_END
          /\ s.flushed = n + 7
     /\ s.pc = "sent" /\ s.sent.op = "IntPair" =>
          /\ Len(w) = n + 11
          /\ w[1] = PACKET_START
          /\ SubSeq(w, 2, n + 1) = Bytes(s.sent.text)
          /\ w[n + 2] = PACKET_INT2
          /\ SubSeq(w, n + 3, n + 6) = BE4(s.sent.args[1])
          /\ SubSeq(w, n + 7, n + 10) = BE4(s.sent.args[2])
          /\ w[n + 11] = PACKET_END
          /\ s.flushed = n + 11

WireFormatWitness ==
  /\ run[1].pc = "sent"
  /\ run[1].sent.op = "IntPair"
  /\ Len(run[1].sent.text) = 2
  /\ run[1].sent.args = <<UL(0, 1), UL(65535, 65535)>>

\* shifting left by eight and OR-ing the next byte in, four times, in the
\* order the bytes were written
Decode32(bytes) == UL(bytes[1] * 256 + bytes[2], bytes[3] * 256 + bytes[4])

\* C9: SerialWriteLongInt(v) writes four bytes, each in 0..255, most
\* significant first: b0 * 2^24 + b1 * 2^16 + b2 * 2^8 + b3 = v.
LongIntCodec ==
  LET s == run[1]
  IN s.sent.op = "Long" =>
       /\ Len(s.tx) = 4
       /\ \A i \in 1..4 : s.tx[i] \in 0..255
       /\ Decode32(s.tx) = s.sent.args[1]

LongIntWitness ==
  /\ run[1].sent.op = "Long"
  /\ run[1].tx = <<1, 62, 128, 255>>

\* C10: SerialHandshake returns only at the read of a 'P'; once a 'P' is on
\* its way or waiting, the handshake does return; with no 'P' read it has
\* not returned.
HandshakeCompletes ==
  /\ [](run[1].pc = "shaken" =>
          run[1].nread >= 1 /\ run[1].input[run[1].nread] = HANDSHAKE_REPLY)
  /\ [](run[1].pc = "handshake" =>
          \A i \in 1..run[1].nread : run[1].input[i] # HANDSHAKE_REPLY)
  /\ ((\E i \in 1..Len(run[1].input) : run[1].input[i] = HANDSHAKE_REPLY)
        ~> run[1].pc = "shaken")

HandshakeWitness ==
  /\ run[1].pc = "shaken"
  /\ run[1].nread = 3
  /\ run[1].tx # <<>>

\* the bytes of s in front of its first END, all of s if it has none
RECURSIVE UpToEnd(_)
UpToEnd(s) ==
  IF s = <<>> \/ Head(s) = PACKET_END THEN <<>> ELSE <<Head(s)>> \o UpToEnd(Tail(s))

\* C11 as stated: the bytes SerialSendCharPair(label, c1, c2) writes, fed to a
\* fresh decoder, come back as one packet with the same label, the payload
\* c1 c2 and a type tag that tells a CharPair from the other packet types,
\* which is neither the tag of a SingleInt nor the tag of a Char packet.
CharPairIdentified ==
  LET s == run[1]
  IN s.sent.op = "CharPair" /\ s.pc # "sent" =>
       /\ Len(s.packets) >= 1 =>
            /\ s.packets[1].label = Bytes(s.sent.text)
            /\ s.packets[1].data = Bytes(s.sent.args)
            /\ s.packets[1].type \notin {PACKET_INT, PACKET_CHAR}
       /\ s.nread = Len(s.input) => Len(s.packets) >= 1

\* C11: the bytes SerialSendCharPair(label, c1, c2) writes, fed to a fresh
\* decoder, come back as one packet with the same label, the CHAR tag, which
\* is the tag of a Char packet too, and the payload c1 c2 cut at its first
\* byte equal to END: exactly c1 c2 when neither is END.
CharPairRoundTrip ==
  LET s == run[1]
  IN s.sent.op = "CharPair" /\ s.pc # "sent" =>
       /\ Len(s.packets) >= 1 =>
            s.packets[1] = [label |-> Bytes(s.sent.text), type |-> PACKET_CHAR,
                            data |-> UpToEnd(Bytes(s.sent.args))]
       /\ s.nread = Len(s.input) => Len(s.packets) >= 1

CharPairWitness ==
  /\ run[1].sent.op = "CharPair"
  /\ run[1].sent.args = <<-1, 98>>
  /\ Len(run[1].sent.text) = 2
  /\ Len(run[1].packets) = 1
  /\ run[1].packets[1].data = <<255, 98>>

\* C12: START, CHAR, one byte b other than END, END decodes to the empty
\* label (cell 0 of buffer_label is the terminator), the CHAR tag and the
\* payload b alone; nothing is returned before the END and no notice written.
EmptyLabelAccepted ==
  LET s == run[1]
      inp == s.input
  IN Len(inp) = 4 /\ inp[1] = PACKET_START /\ inp[2] = PACKET_CHAR
       /\ inp[3] # PACKET_END /\ inp[4] = PACKET_END =>
       /\ s.tx = <<>>
       /\ s.nread < 4 => s.packets = <<>>
       /\ s.nread = 4 =>
            /\ s.packets = << [label |-> <<>>, type |-> PACKET_CHAR, data |-> <<inp[3]>>] >>
            /\ s.buffer_label[1] = 0
            /\ s.ret = PACKET_CHAR

EmptyLabelWitness ==
  /\ run[1].input = <<PACKET_START, PACKET_CHAR, PACKET_START, PACKET_END>>
  /\ run[1].pc = "returned"
  /\ run[1].packets[1].data = <<PACKET_START>>

\* C13: every packet returned with the INT tag has a payload of exactly four
\* bytes, whatever the stream.
IntPayloadFour ==
  \A i \in 1..Len(run[1].packets) :
    run[1].packets[i].type = PACKET_INT => Len(run[1].packets[i].data) = 4

\* a pass of the decoder that reads a byte while it collects the label
LabelStep ==
  /\ run[1].pc = "parse"
  /\ run[1].flag_ser_label
  /\ run'[1].nread = run[1].nread + 1

\* C14: while the label is collected only an INT or CHAR marker ends it: the
\* label is terminated, the marker recorded as the type, the payload length
\* reset and the payload collected from then on; every other byte, START, END
\* and INT2 too, is appended to the label, which goes on being collected.
LabelTransitions ==
  [][LabelStep =>
       LET s == run[1]
           t == run'[1]
           b == Head(s.rx)
           old == Prefix(s.buffer_label, s.length_label)
       IN IF b = PACKET_INT \/ b = PACKET_CHAR
          THEN /\ ~t.flag_ser_label /\ t.flag_ser_data
               /\ t.pc = "parse"
               /\ t.data_type = b
               /\ t.length_data = 0
               /\ t.length_label = s.length_label
               /\ t.buffer_label[s.length_label + 1] = 0
               /\ Prefix(t.buffer_label, s.length_label) = old
          ELSE /\ t.flag_ser_label /\ ~t.flag_ser_data
               /\ t.pc = "parse"
               /\ t.data_type = s.data_type
               /\ t.length_label = s.length_label + 1
               /\ Bytes(Prefix(t.buffer_label, t.length_label)) = Bytes(old) \o <<b>>]_vars

LabelTransitionsWitness ==
  /\ run[1].flag_ser_label
  /\ run[1].length_label = 3
  /\ Bytes(Prefix(run[1].buffer_label, 3)) = <<PACKET_START, PACKET_END, PACKET_INT2>>

\* C15: the call returns only at the pass that reads an END while the payload
\* is collected, and returns the marker that ended the label of that packet;
\* the loop condition never fails, so the end of the function body is never
\* reached, and data_type holds a marker whenever the payload is collected.
ReturnDefined ==
  /\ [](run[1].pc = "parse" => LoopCondition(run[1]))
  /\ [](run[1].flag_ser_data => run[1].data_type \in {PACKET_INT, PACKET_CHAR})
  /\ [](run[1].pc \in {"parse", "returned"})
  /\ [][run[1].pc = "parse" /\ run'[1].pc # "parse" =>
          LET s == run[1]
          IN /\ s.flag_ser_data
             /\ s.rx # <<>> /\ Head(s.rx) = PACKET_END
             /\ run'[1].nread = s.nread + 1
             /\ run'[1].pc = "returned"
             /\ run'[1].ret = s.input[s.nread - s.length_data]
             /\ run'[1].ret \in {PACKET_INT, PACKET_CHAR}]_vars

ReturnDefinedWitness ==
  /\ run[1].pc = "returned"
  /\ Len(run[1].packets) = 2
  /\ run[1].packets[1].type = PACKET_INT
  /\ run[1].ret = PACKET_CHAR

\* C16: the bytes read are the beginning of the stream, each read once and in
\* order, and the rest waits unread; at a return the last byte read is the END
\* that completed the returned packet, whose START, label, marker and payload
\* are the bytes read just before it.
ConsumptionFrame ==
  LET s == run[1]
      n == s.nread
  IN /\ n <= Len(s.input)
     /\ SubSeq(s.input, n + 1, Len(s.input)) = s.rx \o s.wire
     /\ s.pc = "returned" =>
          LET p == s.packets[Len(s.packets)]
              m == n - Len(p.data) - 1
          IN /\ s.input[n] = PACKET_END
             /\ SubSeq(s.input, m + 1, n - 1) = p.data
             /\ s.input[m] = p.type
             /\ SubSeq(s.input, m - Len(p.label), m - 1) = p.label
             /\ s.input[m - Len(p.label) - 1] = PACKET_START

ConsumptionWitness ==
  /\ run[1].pc = "returned"
  /\ Len(run[1].packets) = 1
  /\ run[1].rx # <<>>
  /\ run[1].wire # <<>>

\* inp holds a START, later an INT or CHAR marker, later an END
FrameIn(inp) ==
  \E i, j, k \in 1..Len(inp) :
    /\ i < j /\ j < k
    /\ inp[i] = PACKET_START
    /\ inp[j] \in {PACKET_INT, PACKET_CHAR}
    /\ inp[k] = PACKET_END

\* C17: under fair delivery a stream that holds a START, later an INT or CHAR
\* marker and later an END makes the first call return; on a stream without such a
\* frame the call never returns, and from the START on the decoder collects a
\* label or a payload at every state: nothing times out or gives the packet up.
DecoderTermination ==
  /\ FrameIn(run[1].input) ~> (Len(run[1].packets) >= 1)
  /\ [](~FrameIn(run[1].input) =>
          /\ run[1].pc = "parse"
          /\ run[1].packets = <<>>
          /\ run[1].nread > LeadingNoise(run[1].input) =>
               run[1].flag_ser_label \/ run[1].flag_ser_data)

DecoderTerminationWitness ==
  /\ run[1].input = <<PACKET_START, PACKET_INT, PACKET_START, PACKET_END>>
  /\ run[1].pc = "returned"
  /\ run[1].packets[1].data = <<PACKET_START>>

\* a stream whose type marker is followed by no END, read to its end
DecoderWaitsWitness ==
  /\ run[1].input = <<PACKET_START, 97, PACKET_CHAR, 97>>
  /\ run[1].nread = 4
  /\ run[1].flag_ser_data
  /\ run[1].pc = "parse"

\* C18: SerialHandshake writes nothing but 'A', one at a time and only while
\* no byte waits to be read; a read takes one byte, the oldest, writes nothing
\* and ends the handshake exactly if the byte is 'P'; at the return the bytes
\* read are the stream up to and including its first 'P', and every later
\* byte stays unread.
HandshakeEffects ==
  /\ [](\A i \in 1..Len(run[1].tx) : run[1].tx[i] = HANDSHAKE_PROBE)
  /\ [](/\ run[1].nread <= Len(run[1].input)
        /\ SubSeq(run[1].input, run[1].nread + 1, Len(run[1].input))
             = run[1].rx \o run[1].wire)
  /\ [](run[1].pc = "shaken" =>
          /\ run[1].nread >= 1
          /\ run[1].input[run[1].nread] = HANDSHAKE_REPLY
          /\ \A i \in 1..(run[1].nread - 1) : run[1].input[i] # HANDSHAKE_REPLY)
  /\ [][run'[1].tx # run[1].tx =>
          /\ run[1].rx = <<>>
          /\ run'[1].tx = Append(run[1].tx, HANDSHAKE_PROBE)
          /\ run'[1].nread = run[1].nread
          /\ run'[1].pc = run[1].pc]_vars
  /\ [][run'[1].nread # run[1].nread =>
          /\ run[1].rx # <<>>
          /\ run'[1].nread = run[1].nread + 1
          /\ run'[1].rx = Tail(run[1].rx)
          /\ run'[1].tx = run[1].tx
          /\ run'[1].pc = IF Head(run[1].rx) = HANDSHAKE_REPLY
                          THEN "shaken" ELSE "handshake"]_vars
  /\ [][run[1].pc = "shaken" =>
          run'[1].nread = run[1].nread /\ run'[1].tx = run[1].tx]_vars

HandshakeEffectsWitness ==
  /\ run[1].pc = "shaken"
  /\ run[1].input = <<PACKET_START, HANDSHAKE_REPLY, PACKET_START, HANDSHAKE_REPLY>>
  /\ run[1].nread = 2
  /\ run[1].tx = <<HANDSHAKE_PROBE>>
  /\ run[1].rx = <<PACKET_START, HANDSHAKE_REPLY>>

\* the decoder collects neither a label nor a payload, and both lengths are 0
IdleAtZero(s) ==
  /\ ~s.flag_ser_label /\ ~s.flag_ser_data
  /\ s.length_label = 0 /\ s.length_data = 0

\* C19: flag_ser_label and flag_ser_data are never both set; the first call
\* and every later call start with both flags clear and both lengths 0,
\* whatever the earlier calls read; a byte other than START read while both
\* flags are clear changes no flag, no length and no cell of either buffer.
DecoderStateInvariant ==
  /\ IdleAtZero(run[1])
  /\ [](~(run[1].flag_ser_label /\ run[1].flag_ser_data))
  /\ [][run[1].pc = "returned" /\ run'[1].pc = "parse" =>
          IdleAtZero(run'[1]) /\ ~run'[1].flag_ser_end]_vars
  /\ [][IdleNoiseStep =>
          /\ Locals(run'[1]) = Locals(run[1])
          /\ run'[1].buffer_label = run[1].buffer_label
          /\ run'[1].buffer_data = run[1].buffer_data
          /\ run'[1].pc = "parse"
          /\ run'[1].packets = run[1].packets]_vars

DecoderStateWitness ==
  /\ run[1].input = <<PACKET_START, PACKET_INT, PACKET_END, 97>>
  /\ run[1].nread = 4
  /\ Len(run[1].packets) = 1
  /\ run[1].pc = "parse"
  /\ IdleAtZero(run[1])
  /\ run[1].buffer_label = <<0>>
  /\ run[1].tx # <<>>

\* the smaller of two numbers
Min(a, b) == IF a <= b THEN a ELSE b

\* C20: no returned payload holds an END and no returned label holds an INT
\* or CHAR marker; the first packet is cut at the first END behind its
\* marker, and the bytes that follow that END up to the next START are read
\* with both flags clear, each one reported by a notice and none of them
\* returned in a packet.
DelimiterExclusion ==
  LET s == run[1]
      inp == s.input
      k == LeadingNoise(inp)
      m == LabelEnd(inp, k)
      e == IF m = 0 THEN 0 ELSE FirstEnd(inp, m + 1)
      n == LeadingNoise(SubSeq(inp, e + 1, Len(inp)))
  IN /\ \A i \in 1..Len(s.packets) :
          /\ \A j \in 1..Len(s.packets[i].data) : s.packets[i].data[j] # PACKET_END
          /\ \A j \in 1..Len(s.packets[i].label) :
               s.packets[i].label[j] \notin {PACKET_INT, PACKET_CHAR}
     /\ (e = 0 \/ s.nread < e) => s.packets = <<>>
     /\ (e # 0 /\ s.nread >= e /\ s.nread <= e + n) =>
          /\ s.packets = << [label |-> SubSeq(inp, k + 2, m - 1),
                             type |-> inp[m],
                             data |-> SubSeq(inp, m + 1, e - 1)] >>
          /\ s.tx = Notices(Prefix(inp, k)) \o Notices(SubSeq(inp, e + 1, s.nread))
          /\ s.pc = "parse" => ~s.flag_ser_label /\ ~s.flag_ser_data

DelimiterWitness ==
  /\ run[1].input = <<PACKET_START, 84, PACKET_INT, 0, 0, 0, PACKET_END, PACKET_END>>
  /\ run[1].nread = 8
  /\ run[1].packets[1].data = <<0, 0, 0>>
  /\ Len(run[1].tx) = 18

====
